---- MODULE Spec2Model ----
(***************************************************************************)
(* Openh264Decoder (src/src/lib.rs): a caller that drives handle(), the    *)
(* blocking decode worker spawned by new(), the two bounded spsc channels  *)
(* between them and the worker's timestamp heap (ts_heap).                 *)
(*                                                                         *)
(* The native decode call is a black box: each call returns Ok(None),      *)
(* Ok(Some(image)) or Err, chosen nondeterministically.                    *)
(***************************************************************************)
EXTENDS Integers, Sequences, FiniteSets, TLC

\* spsc::channel(2): the capacity of each of the two channels.
Capacity == 2

\* Bounds of the model.
MaxUnits == 2
MaxTs == 1
MaxChunks == 2
MaxRegular == 5
MaxChunked == 4
KeyChunks == 3
MaxSmallDim == 4

VARIABLES
    upstream,       \* the kind of upstream stage: "any" | "regular" | "chunked" (see Inputs)
    cpc,            \* caller: "idle" | "send" | "drain" | "dropping" | "dropped"
    cur,            \* the frame the current handle() call is sending
    sent,           \* what sender.send gave the current call: "none" | "ok" | "err"
    stream,         \* the items the handle() stream being polled has yielded
    sender,         \* Openh264Decoder.sender is alive (not dropped)
    receiver,       \* Openh264Decoder.receiver is alive (not dropped)
    inq,            \* input channel (sender -> rx)
    outq,           \* output channel (tx -> receiver)
    wpc,            \* worker: "init" | "recv" | "decode" | "send" | "done"
    frame,          \* the frame the worker received last
    ci,             \* index of the chunk of frame being decoded
    res,            \* the item the worker is sending on tx
    ts_heap,        \* the entries of the BinaryHeap<Entry<I>>
    result,         \* the closure's return value: "none" | "Ok" | "Err"
    nCalls,         \* history: number of handle() calls
    nLost,          \* history: number of sends on the input channel that failed
    lastTs,         \* history: timestamp of the last frame handed to handle()
    strictTs,       \* history: the timestamps handed to handle() strictly increase
    monoTs,         \* history: the timestamps handed to handle() never decrease
    oneChunk,       \* history: every frame handed to handle() has one chunk
    sawNone,        \* history: some decode call returned Ok(None)
    sawErr,         \* history: some decode call returned Err
    errUnsent,      \* history: decode errors the output channel has not accepted
    nEmit,          \* history: number of items the output channel accepted
    maxOk,          \* history: greatest timestamp of the Ok frames the channel accepted
    txFailed,       \* history: a send on the output channel has failed
    nPop,           \* history: number of ts_heap.pop() calls that returned an entry
    nImage,         \* history: number of decode calls that returned an image
    fpc,            \* make_frame on its own: "idle" | "image" | "made"
    dims,           \* make_frame: frame.dimensions() of the image, <<width, height>>
    in_flags,       \* make_frame: the flags of in_frame (<<fl>>), or NoFlags for None
    decoded         \* make_frame: the DecodedFrame it returns (size fields and flags)

callerVars == <<upstream, cpc, cur, sent, stream, sender, receiver,
                nCalls, nLost, lastTs, strictTs, monoTs, oneChunk>>
workerVars == <<wpc, frame, ci, res, ts_heap, result,
                sawNone, sawErr, errUnsent, nEmit, maxOk, txFailed, nPop, nImage>>
chanVars == <<inq, outq>>
frameVars == <<fpc, dims, in_flags, decoded>>

vars == <<callerVars, workerVars, chanVars, frameVars>>

Timestamps == 0 .. MaxTs

\* A frame as the worker sees it: timestamp(), source(), and the number of
\* chunks chunks() iterates. The source tag is the number of the handle() call.
NoFrame == [ts |-> 0, src |-> 0, n |-> 0]

\* u64::default() and S::default(), used by make_frame when the heap is empty.
DefaultTs == 0
DefaultSource == 0

NoItem == [kind |-> "none", ts |-> 0, src |-> 0]

\* Err(Error::OpenH264Error(e)): the item a failed decode call sends.
ErrItem == [kind |-> "err", ts |-> 0, src |-> 0]

(***************************************************************************)
(* Entry: ordered by the reversed comparison of timestamps.                *)
(***************************************************************************)
Entry(f) == [ts |-> f.ts, src |-> f.src]

\* u64::cmp
U64Cmp(a, b) == IF a < b THEN "Less" ELSE IF a = b THEN "Equal" ELSE "Greater"

\* impl Ord for Entry: other.0.timestamp().cmp(&self.0.timestamp())
EntryCmpNatural(self, other) == U64Cmp(self.ts, other.ts)
EntryCmp(self, other) == U64Cmp(other.ts, self.ts)

\* BinaryHeap is a max-heap of Ord: peek() and pop() give a greatest entry.
\* Which of several equal entries comes first is left open.
AnyEntry(h) == h
Greatest(h) == {e \in h : \A f \in h : EntryCmp(e, f) # "Less"}

\* ts_heap.peek(): the set of entries it may return (empty for None).
Peek(h) == Greatest(h)

\* lines 113-119: push the frame unless peek() has its timestamp.
HeapUpdateAlways(h, f) == h \cup {Entry(f)}
HeapUpdateNoElse(h, f) ==
    IF h # {} /\ (\E e \in Peek(h) : e.ts # f.ts) THEN h \cup {Entry(f)} ELSE h
HeapUpdate(h, f) ==
    IF h # {}
    THEN IF \E e \in Peek(h) : e.ts # f.ts THEN h \cup {Entry(f)} ELSE h
    ELSE h \cup {Entry(f)}

\* (variant of make_frame: None is treated as a failure)
make_frame_checked(in_frame) ==
    IF in_frame = NoItem
    THEN ErrItem
    ELSE [kind |-> "ok", ts |-> in_frame.ts, src |-> in_frame.src]

\* make_frame(in_frame, image): in_frame = NoItem stands for None.
make_frame(in_frame) ==
    [kind |-> "ok",
     ts   |-> IF in_frame = NoItem THEN DefaultTs ELSE in_frame.ts,
     src  |-> IF in_frame = NoItem THEN DefaultSource ELSE in_frame.src]

(***************************************************************************)
(* make_frame, the fields it computes from the image's dimensions and from *)
(* the flags of in_frame (lines 158-182).                                  *)
(***************************************************************************)

\* width: u16, height: u16 (lines 21-22): the number of u16 values.
U16Range == 65536

\* `dims.0 as _`, `dims.1 as _`: a usize cast to u16 keeps the low 16 bits.
AsU16(n) == n % U16Range

\* Vec::with_capacity(dims.0 * dims.1 * 3) and set_len of the same.
DataLen(d) == d[1] * d[2] * 3

\* The flags make_frame names. The flags of in_frame are an Option: <<>> for
\* None, <<fl>> for an entry of flags fl.
FrameFlags == {"VIDEO_STREAM", "ENCODED", "ANNEXB"}
NoFlags == <<>>

\* in_frame.map(|x| x.flags()).unwrap_or(VIDEO_STREAM), then ENCODED and
\* ANNEXB are cleared.
make_flags(fl) ==
    (IF fl = NoFlags THEN {"VIDEO_STREAM"} ELSE fl[1]) \ {"ENCODED", "ANNEXB"}

\* The DecodedFrame's width, height, data.len() and flags.
make_decoded(d, fl) ==
    [width  |-> AsU16(d[1]),
     height |-> AsU16(d[2]),
     data   |-> DataLen(d),
     flags  |-> make_flags(fl)]

NoDecoded == [width |-> 0, height |-> 0, data |-> 0, flags |-> {}]

\* The dimensions the codec may report (usize, usize): small ones and those
\* around the end of the u16 range, one of the two being small.
DimValues == (0 .. MaxSmallDim) \cup {U16Range - 1, U16Range, U16Range + 1}
Dims == {d \in DimValues \X DimValues : d[1] <= MaxSmallDim \/ d[2] <= MaxSmallDim}

\* The flags in_frame may have, or None.
InFlags == {NoFlags} \cup {<<fl>> : fl \in SUBSET FrameFlags}

\* the worker has returned: rx and tx are dropped with the closure.
WorkerGone == wpc = "done"

(***************************************************************************)
(* spsc::channel(2) (lines 77-78): a bounded channel of one producer and   *)
(* one consumer. send waits for room and fails once the receiver is gone;  *)
(* recv waits for an item and gives None once the channel is empty and the *)
(* sender is gone.                                                         *)
(***************************************************************************)
HasRoomOneMore(q) == Len(q) <= Capacity
HasRoom(q) == Len(q) < Capacity

\* the receiving half of the output channel has been dropped
TxClosedNever == FALSE
TxClosed == ~receiver

\* the sending half of the input channel has been dropped
RxClosed == ~sender

(***************************************************************************)
(* Initial state: Openh264Decoder::new has returned; the worker closure    *)
(* has been handed to spawn_blocking and has not run yet.                  *)
(***************************************************************************)
Init ==
    /\ upstream \in {"any", "regular", "chunked"}
    /\ cpc = "idle"
    /\ cur = NoFrame
    /\ sent = "none"
    /\ stream = <<>>
    /\ sender = TRUE
    /\ receiver = TRUE
    /\ inq = <<>>
    /\ outq = <<>>
    /\ wpc = "init"
    /\ frame = NoFrame
    /\ ci = 0
    /\ res = NoItem
    /\ ts_heap = {}
    /\ result = "none"
    /\ nCalls = 0
    /\ nLost = 0
    /\ lastTs = -1
    /\ strictTs = TRUE
    /\ monoTs = TRUE
    /\ oneChunk = TRUE
    /\ sawNone = FALSE
    /\ sawErr = FALSE
    /\ errUnsent = 0
    /\ nEmit = 0
    /\ maxOk = -1
    /\ txFailed = FALSE
    /\ nPop = 0
    /\ nImage = 0
    /\ fpc = "idle"
    /\ dims = <<0, 0>>
    /\ in_flags = NoFlags
    /\ decoded = NoDecoded

(***************************************************************************)
(* The caller: Service::handle (lines 194-205) and the drop of the decoder *)
(***************************************************************************)

\* The frames the upstream stage may hand to handle() next, as <<timestamp,
\* number of chunks>>: a regular upstream gives up to MaxRegular frames of one
\* chunk each with timestamps 0, 1, 2, ...; a chunked one gives up to
\* MaxChunked frames, the first of KeyChunks chunks and the others of one,
\* with timestamps that never decrease (each repeats the last one or is the
\* next); any other gives up to MaxUnits frames of any timestamp and
\* 1 .. MaxChunks chunks.
Inputs ==
    CASE upstream = "regular" ->
           IF nCalls < MaxRegular THEN {<<lastTs + 1, 1>>} ELSE {}
      [] upstream = "chunked" ->
           IF nCalls < MaxChunked
           THEN {<<t, IF nCalls = 0 THEN KeyChunks ELSE 1>> :
                    t \in {u \in 0 .. lastTs + 1 : u >= lastTs}}
           ELSE {}
      [] OTHER ->
           IF nCalls < MaxUnits THEN Timestamps \X (1 .. MaxChunks) ELSE {}

\* handle(frame, cx) is called with the next frame of the upstream stage.
Handle ==
    /\ cpc = "idle"
    /\ \E in \in Inputs :
          /\ cur' = [ts |-> in[1], src |-> nCalls + 1, n |-> in[2]]
          /\ lastTs' = in[1]
          /\ strictTs' = (strictTs /\ in[1] > lastTs)
          /\ monoTs' = (monoTs /\ in[1] >= lastTs)
          /\ oneChunk' = (oneChunk /\ in[2] = 1)
    /\ nCalls' = nCalls + 1
    /\ sent' = "none"
    /\ stream' = <<>>
    /\ cpc' = "send"
    /\ UNCHANGED <<upstream, sender, receiver, nLost>>
    /\ UNCHANGED <<workerVars, chanVars>>
    /\ UNCHANGED frameVars

\* self.sender.send(frame).await, its result discarded by `let _ =`.
\* The send fails when rx is gone, waits while the channel is full.
SendFrame ==
    /\ cpc = "send"
    /\ IF WorkerGone
       THEN /\ sent' = "err"
            /\ nLost' = nLost + 1
            /\ UNCHANGED inq
       ELSE /\ HasRoom(inq)
            /\ inq' = Append(inq, cur)
            /\ sent' = "ok"
            /\ UNCHANGED nLost
    /\ cpc' = "drain"
    /\ UNCHANGED <<upstream, cur, stream, sender, receiver, nCalls, lastTs, strictTs, monoTs, oneChunk>>
    /\ UNCHANGED <<workerVars, outq>>
    /\ UNCHANGED frameVars

\* (variant of TryRecv: recv().await in place of try_recv(), which waits for
\* an item and ends the loop only once the worker is gone)
TryRecvWaits ==
    /\ cpc = "drain"
    /\ IF outq # <<>>
       THEN /\ stream' = Append(stream, Head(outq))
            /\ outq' = Tail(outq)
            /\ UNCHANGED cpc
       ELSE /\ WorkerGone
            /\ cpc' = "idle"
            /\ stream' = <<>>
            /\ UNCHANGED outq
    /\ UNCHANGED <<upstream, cur, sent, sender, receiver, nCalls, nLost, lastTs, strictTs, monoTs, oneChunk>>
    /\ UNCHANGED <<workerVars, inq>>
    /\ UNCHANGED frameVars

\* while let Ok(Some(res)) = self.receiver.try_recv() { yield res; }
TryRecv ==
    /\ cpc = "drain"
    /\ IF outq # <<>>
       THEN /\ stream' = Append(stream, Head(outq))
            /\ outq' = Tail(outq)
            /\ UNCHANGED cpc
       ELSE /\ cpc' = "idle"
            /\ stream' = <<>>
            /\ UNCHANGED outq
    /\ UNCHANGED <<upstream, cur, sent, sender, receiver, nCalls, nLost, lastTs, strictTs, monoTs, oneChunk>>
    /\ UNCHANGED <<workerVars, inq>>
    /\ UNCHANGED frameVars

\* The Openh264Decoder is dropped: its fields go in declaration order,
\* sender (line 70) first, then receiver (line 71).
DropSender ==
    /\ cpc = "idle"
    /\ sender' = FALSE
    /\ cpc' = "dropping"
    /\ UNCHANGED <<upstream, cur, sent, stream, receiver, nCalls, nLost, lastTs, strictTs, monoTs, oneChunk>>
    /\ UNCHANGED <<workerVars, chanVars>>
    /\ UNCHANGED frameVars

DropReceiver ==
    /\ cpc = "dropping"
    /\ receiver' = FALSE
    /\ cpc' = "dropped"
    /\ UNCHANGED <<upstream, cur, sent, stream, sender, nCalls, nLost, lastTs, strictTs, monoTs, oneChunk>>
    /\ UNCHANGED <<workerVars, chanVars>>
    /\ UNCHANGED frameVars

(***************************************************************************)
(* The worker: the closure of spawn_blocking (lines 83-149)                *)
(***************************************************************************)

\* Decoder::with_api_config(...)? : on failure the closure returns the error.
Construct ==
    /\ wpc = "init"
    /\ \/ /\ wpc' = "recv"
          /\ UNCHANGED result
       \/ /\ wpc' = "done"
          /\ result' = "Err"
    /\ UNCHANGED <<frame, ci, res, ts_heap, sawNone, sawErr, errUnsent, nEmit, maxOk, txFailed, nPop, nImage>>
    /\ UNCHANGED <<callerVars, chanVars>>
    /\ UNCHANGED frameVars

\* while let Some(frame) = block_on(rx.recv()), then the heap update.
Recv ==
    /\ wpc = "recv"
    /\ inq # <<>>
    /\ frame' = Head(inq)
    /\ inq' = Tail(inq)
    /\ ts_heap' = HeapUpdate(ts_heap, Head(inq))
    /\ ci' = 1
    /\ wpc' = "decode"
    /\ UNCHANGED <<res, result, sawNone, sawErr, errUnsent, nEmit, maxOk, txFailed, nPop, nImage>>
    /\ UNCHANGED <<callerVars, outq>>
    /\ UNCHANGED frameVars

\* rx.recv() gives None: the channel is empty and its sender is dropped.
\* The loop ends and the closure returns Ok(()).
RecvClosed ==
    /\ wpc = "recv"
    /\ inq = <<>>
    /\ RxClosed
    /\ wpc' = "done"
    /\ result' = "Ok"
    /\ UNCHANGED <<frame, ci, res, ts_heap, sawNone, sawErr, errUnsent, nEmit, maxOk, txFailed, nPop, nImage>>
    /\ UNCHANGED <<callerVars, chanVars>>
    /\ UNCHANGED frameVars

\* The for loop goes to its next chunk, or ends and the while loop goes on.
NextChunkPc == IF ci < frame.n THEN "decode" ELSE "recv"
NextChunkCi == IF ci < frame.n THEN ci + 1 ELSE 0

\* decoder.decode(chunk) returns Ok(None): nothing is sent.
DecodeNone ==
    /\ wpc = "decode"
    /\ sawNone' = TRUE
    /\ wpc' = NextChunkPc
    /\ ci' = NextChunkCi
    /\ UNCHANGED <<frame, res, ts_heap, result, sawErr, errUnsent, nEmit, maxOk, txFailed, nPop, nImage>>
    /\ UNCHANGED <<callerVars, chanVars>>
    /\ UNCHANGED frameVars

\* (variant of DecodeImage: ts_heap.peek() in place of pop(), the entry stays)
DecodeImagePeek ==
    /\ wpc = "decode"
    /\ IF ts_heap = {}
       THEN /\ res' = make_frame(NoItem)
            /\ UNCHANGED nPop
       ELSE /\ \E e \in Greatest(ts_heap) : res' = make_frame(e)
            /\ nPop' = nPop + 1
    /\ nImage' = nImage + 1
    /\ wpc' = "send"
    /\ UNCHANGED <<frame, ci, ts_heap, result, sawNone, sawErr, errUnsent, nEmit, maxOk, txFailed>>
    /\ UNCHANGED <<callerVars, chanVars>>
    /\ UNCHANGED frameVars

\* decoder.decode(chunk) returns Ok(Some(image)):
\* Self::make_frame(ts_heap.pop(), image).
DecodeImage ==
    /\ wpc = "decode"
    /\ IF ts_heap = {}
       THEN /\ res' = make_frame(NoItem)
            /\ UNCHANGED <<ts_heap, nPop>>
       ELSE /\ \E e \in Greatest(ts_heap) :
                 /\ res' = make_frame(e)
                 /\ ts_heap' = ts_heap \ {e}
            /\ nPop' = nPop + 1
    /\ nImage' = nImage + 1
    /\ wpc' = "send"
    /\ UNCHANGED <<frame, ci, result, sawNone, sawErr, errUnsent, nEmit, maxOk, txFailed>>
    /\ UNCHANGED <<callerVars, chanVars>>
    /\ UNCHANGED frameVars

\* (variants of DecodeErr: the error ends the closure; the error is not sent)
DecodeErrFatal ==
    /\ wpc = "decode"
    /\ sawErr' = TRUE
    /\ errUnsent' = errUnsent + 1
    /\ wpc' = "done"
    /\ result' = "Err"
    /\ UNCHANGED <<frame, ci, res, ts_heap, sawNone, nEmit, maxOk, txFailed, nPop, nImage>>
    /\ UNCHANGED <<callerVars, chanVars>>
    /\ UNCHANGED frameVars

DecodeErrDropped ==
    /\ wpc = "decode"
    /\ sawErr' = TRUE
    /\ errUnsent' = errUnsent + 1
    /\ wpc' = NextChunkPc
    /\ ci' = NextChunkCi
    /\ UNCHANGED <<frame, res, ts_heap, result, sawNone, nEmit, maxOk, txFailed, nPop, nImage>>
    /\ UNCHANGED <<callerVars, chanVars>>
    /\ UNCHANGED frameVars

\* decoder.decode(chunk) returns Err(e): map_err(Error::from), no pop.
DecodeErr ==
    /\ wpc = "decode"
    /\ res' = ErrItem
    /\ sawErr' = TRUE
    /\ errUnsent' = errUnsent + 1
    /\ wpc' = "send"
    /\ UNCHANGED <<frame, ci, ts_heap, result, sawNone, nEmit, maxOk, txFailed, nPop, nImage>>
    /\ UNCHANGED <<callerVars, chanVars>>
    /\ UNCHANGED frameVars

\* block_on(tx.send(res)) succeeds once the channel has room.
SendRes ==
    /\ wpc = "send"
    /\ ~TxClosed
    /\ HasRoom(outq)
    /\ outq' = Append(outq, res)
    /\ nEmit' = nEmit + 1
    /\ errUnsent' = IF res.kind = "err" THEN errUnsent - 1 ELSE errUnsent
    /\ maxOk' = IF res.kind = "ok" /\ res.ts > maxOk THEN res.ts ELSE maxOk
    /\ res' = NoItem
    /\ wpc' = NextChunkPc
    /\ ci' = NextChunkCi
    /\ UNCHANGED <<frame, ts_heap, result, sawNone, sawErr, txFailed, nPop, nImage>>
    /\ UNCHANGED <<callerVars, inq>>
    /\ UNCHANGED frameVars

\* block_on(tx.send(res)).is_err(): the receiver is gone; `break` leaves
\* the for loop, and the while loop goes on with rx.recv().
SendResFailed ==
    /\ wpc = "send"
    /\ TxClosed
    /\ txFailed' = TRUE
    /\ res' = NoItem
    /\ wpc' = "recv"
    /\ ci' = 0
    /\ UNCHANGED <<frame, ts_heap, result, sawNone, sawErr, errUnsent, nEmit, maxOk, nPop, nImage>>
    /\ UNCHANGED <<callerVars, chanVars>>
    /\ UNCHANGED frameVars

(***************************************************************************)
(* make_frame on its own (lines 154-183): the codec returns an image of    *)
(* some dimensions, ts_heap.pop() gives an entry or None, and make_frame   *)
(* builds the DecodedFrame.                                                *)
(***************************************************************************)
Decoded ==
    /\ fpc = "idle"
    /\ dims' \in Dims
    /\ in_flags' \in InFlags
    /\ fpc' = "image"
    /\ UNCHANGED decoded
    /\ UNCHANGED <<callerVars, workerVars, chanVars>>

MakeFrame ==
    /\ fpc = "image"
    /\ decoded' = make_decoded(dims, in_flags)
    /\ fpc' = "made"
    /\ UNCHANGED <<dims, in_flags>>
    /\ UNCHANGED <<callerVars, workerVars, chanVars>>

FrameNext == Decoded \/ MakeFrame

Caller == Handle \/ SendFrame \/ TryRecv \/ DropSender \/ DropReceiver

Worker ==
    \/ Construct
    \/ Recv
    \/ RecvClosed
    \/ DecodeNone
    \/ DecodeImage
    \/ DecodeErr
    \/ SendRes
    \/ SendResFailed

Next == Caller \/ Worker

Spec == Init /\ [][Next]_vars

\* The worker is a thread of its own and every call it makes returns; the
\* drop of the decoder, once begun, drops every field.
FairSpec == Spec /\ WF_vars(Worker) /\ WF_vars(DropReceiver)

\* make_frame applied to every image and entry of Dims and InFlags.
FrameSpec == Init /\ [][FrameNext]_vars

(***************************************************************************)
(* What the claims speak of                                                *)
(***************************************************************************)

\* number of sends on the input channel that have completed with Ok
SendsOk == nCalls - nLost - (IF cpc = "send" THEN 1 ELSE 0)

\* number of items taken out of the output channel by try_recv
Drained == nEmit - Len(outq)

\* every decode call so far has returned Ok(Some(image))
AllImage == ~sawNone /\ ~sawErr

\* this step is a successful tx.send of an Ok frame
EmitsOk == nEmit' = nEmit + 1 /\ res.kind = "ok"

\* this step is a decode call that returned Ok(Some(image))
DecodesImage == wpc = "decode" /\ wpc' = "send" /\ res'.kind = "ok"

\* this step is a rx.recv() that returned Some(frame)
Receives == Len(inq') < Len(inq)

\* the frame was built by make_frame from None (the heap was empty)
IsDefault(item) == item.ts = DefaultTs /\ item.src = DefaultSource

\* C1 (as claimed): with strictly increasing timestamps and decode calls that
\* return None or an image, every Ok frame the worker emits has a timestamp
\* no smaller than those of the Ok frames emitted before it.
C1_Original ==
    [][(EmitsOk /\ strictTs /\ ~sawErr) => res.ts >= maxOk]_vars

\* C1 (amended): the same, except for the frames make_frame builds from an
\* empty heap, which carry the default timestamp 0 and the default source.
C1_OrderedButDefault ==
    [][(EmitsOk /\ strictTs /\ ~sawErr) => (res.ts >= maxOk \/ IsDefault(res))]_vars

\* C1 witness: two frames stamped from heap entries sit in the output channel
\* in increasing timestamp order, after an earlier frame was emitted.
C1_Witness ==
    /\ strictTs /\ ~sawErr
    /\ Len(outq) = 2
    /\ ~IsDefault(outq[1]) /\ ~IsDefault(outq[2])
    /\ outq[1].kind = "ok" /\ outq[2].kind = "ok"
    /\ outq[1].ts < outq[2].ts

\* C2: a decode call that yields an image while the heap is non-empty builds
\* its frame from an entry of smallest timestamp and removes that entry.
C2_PopsMinimum ==
    [][(DecodesImage /\ ts_heap # {}) =>
          \E e \in ts_heap :
             /\ \A f \in ts_heap : e.ts <= f.ts
             /\ res'.ts = e.ts
             /\ res'.src = e.src
             /\ ts_heap' = ts_heap \ {e}]_vars

\* C2 witness: the frame being sent carries the timestamp and source of an
\* older frame (which decoded to None), not those of the frame just decoded.
C2_Witness ==
    /\ wpc = "send"
    /\ res.kind = "ok"
    /\ ~IsDefault(res)
    /\ res.src # frame.src
    /\ res.ts < frame.ts
    /\ sawNone /\ ~sawErr

\* C3: with one chunk per frame, strictly increasing timestamps and an image
\* from every decode call, the k-th frame the worker emits carries the
\* timestamp and source of the k-th frame handed to handle() (whose source
\* tag is k).
C3_KthOutputIsKthInput ==
    (oneChunk /\ strictTs /\ AllImage /\ ~txFailed /\ wpc = "send") =>
        /\ res = [kind |-> "ok", ts |-> frame.ts, src |-> frame.src]
        /\ frame.src = nEmit + 1

\* C3 witness: the third frame is about to be emitted after two others.
C3_Witness ==
    /\ oneChunk /\ strictTs /\ AllImage /\ ~txFailed
    /\ wpc = "send"
    /\ nEmit = 2
    /\ frame.src = 3

\* smallest timestamp in a non-empty heap
MinTs(h) == CHOOSE t \in {e.ts : e \in h} : \A e \in h : t <= e.ts

\* C4: a received frame whose timestamp equals that of the heap's minimum
\* leaves the heap as it is; any other received frame adds exactly one entry,
\* its own.
C4_HeapUpdate ==
    [][Receives =>
          IF ts_heap # {} /\ MinTs(ts_heap) = Head(inq).ts
          THEN ts_heap' = ts_heap
          ELSE /\ ts_heap' = ts_heap \cup {Entry(Head(inq))}
               /\ Cardinality(ts_heap') = Cardinality(ts_heap) + 1]_vars

\* C4 witness: a frame has just been received and not pushed, the heap's
\* minimum having its timestamp.
C4_Witness ==
    /\ wpc = "decode" /\ ci = 1
    /\ ts_heap # {}
    /\ MinTs(ts_heap) = frame.ts
    /\ Entry(frame) \notin ts_heap

\* every frame whose send succeeded is in the input channel or has been
\* received: the channel holds the frames after the last received one, in
\* the order of their handle() calls
NoUnitDropped ==
    /\ frame.src + Len(inq) = SendsOk
    /\ \A i \in 1 .. Len(inq) : inq[i].src = frame.src + i

ChannelsBounded == Len(inq) <= Capacity /\ Len(outq) <= Capacity

\* C5 (as claimed): while nothing has been drained from the output channel
\* and every frame decodes to one image, no more than capacity + 1 sends
\* complete; no frame is dropped; neither channel holds more than 2 items.
C5_Original ==
    /\ ChannelsBounded
    /\ NoUnitDropped
    /\ (oneChunk /\ AllImage /\ Drained = 0) => SendsOk <= Capacity + 1

\* C5 (amended): a send waits while the input channel holds 2 frames; while
\* nothing has been drained and every frame decodes to one image, at most
\* 2 * capacity sends complete, and the last of them only once an item is in
\* the output channel for its handle() call to drain; no frame is dropped;
\* neither channel holds more than 2 items.
C5_Backpressure ==
    /\ ChannelsBounded
    /\ NoUnitDropped
    /\ (cpc = "send" /\ ~WorkerGone /\ Len(inq) = Capacity) => ~ENABLED SendFrame
    /\ (oneChunk /\ AllImage /\ Drained = 0) =>
          /\ SendsOk <= 2 * Capacity
          /\ SendsOk = 2 * Capacity => (cpc = "drain" /\ outq # <<>>)

\* C5 witness: the fourth send has completed and nothing has been drained.
C5_Witness ==
    /\ oneChunk /\ AllImage /\ Drained = 0
    /\ SendsOk = 2 * Capacity
    /\ Len(inq) = Capacity

\* the worker is inside its while loop
InLoop == wpc \in {"recv", "decode", "send"}

\* C6: once the decoder is dropped, a worker that is in its loop leaves it
\* and returns Ok, also when it waits on a full output channel; it is never
\* stuck, and no frame enters the input channel after the drop.
C6_DropTerminatesWorker ==
    /\ (~sender /\ InLoop) ~> (wpc = "done" /\ result = "Ok")
    /\ [](~sender => (WorkerGone \/ ENABLED Worker \/ ENABLED DropReceiver))
    /\ [][~sender => (nCalls' = nCalls /\ Len(inq') <= Len(inq))]_vars

\* C6 witness: the worker has returned Ok after a send failed on an output
\* channel that was full and never drained.
C6_Witness ==
    /\ cpc = "dropped"
    /\ wpc = "done" /\ result = "Ok"
    /\ txFailed
    /\ Drained = 0
    /\ Len(outq) = Capacity
    /\ SendsOk >= 3

\* this step is a decode call
Decodes == wpc = "decode" /\ (wpc' # "decode" \/ ci' # ci)

PendingErr == IF wpc = "send" /\ res = ErrItem THEN 1 ELSE 0

\* C8: while the output consumer is alive, every decode error is an Err item
\* in the output channel or about to be sent, and each item is appended to
\* the channel before the next decode call, so items keep the decode order.
C8_ErrorsAreItems ==
    /\ [](receiver => errUnsent = PendingErr)
    /\ [][(wpc = "send" /\ wpc' # "send" /\ receiver) => outq' = Append(outq, res)]_vars
    /\ [][(Decodes /\ errUnsent' > errUnsent) => (wpc' = "send" /\ res' = ErrItem)]_vars

\* C8 witness: a handle() stream has yielded an Err item and then an Ok frame.
C8_Witness ==
    \E i, j \in 1 .. Len(stream) :
        i < j /\ stream[i] = ErrItem /\ stream[j].kind = "ok"

\* C9 (as claimed): a handle() call whose send failed has yielded an error
\* item of its own kind by the time its stream ends.
C9_SendFailureReported ==
    (cpc = "drain" /\ sent = "err" /\ outq = <<>>) =>
        \E i \in 1 .. Len(stream) : stream[i].kind = "closed"

\* C10 (as claimed): once a send on the output channel has failed the worker
\* makes no decode call and returns Ok.
C10_StopsOnSendFailure ==
    txFailed => (wpc \in {"recv", "done"} /\ (wpc = "done" => result = "Ok"))

C12_AllOutputDelivered ==
    (cpc = "dropped" /\ wpc = "done" /\ result = "Ok") => outq = <<>>

\* number of frames the worker has received: the frames arrive in the order
\* of their handle() calls and carry the number of their call as source tag
Received == frame.src

\* C14 (as claimed): the heap never holds more entries than the capacity of
\* a channel.
C14_Original == Cardinality(ts_heap) <= Capacity

\* C14 (amended): the heap never holds more entries than the worker has
\* received frames, and at most one while every decode call has returned an
\* image.
C14_HeapBound ==
    /\ Cardinality(ts_heap) <= Received
    /\ AllImage => Cardinality(ts_heap) <= 1

\* C14 witness: three entries are pending after decode calls that returned
\* None or failed.
C14_Witness ==
    /\ Cardinality(ts_heap) = Capacity + 1
    /\ sawNone /\ sawErr

\* C15 (as claimed): the heap holds at most as many entries as frames were
\* received, less the images for which ts_heap.pop() was called.
C15_Original == Cardinality(ts_heap) <= Received - nImage

\* C15 (amended): the heap holds at most as many entries as frames were
\* received, less the pop() calls that returned an entry; a pop removes the
\* entry it returns, and the only entry a step adds is that of a frame just
\* received, so an entry once popped never comes back.
C15_PendingBound ==
    /\ [](Cardinality(ts_heap) <= Received - nPop)
    /\ [][nPop' = nPop + 1 =>
             \E e \in ts_heap : ts_heap' = ts_heap \ {e} /\ res' = make_frame(e)]_vars
    /\ [][\A e \in ts_heap' \ ts_heap :
             e = Entry(frame') /\ Receives /\ frame'.src > frame.src]_vars

\* C15 witness: after three frames and two pops that returned an entry, one
\* entry is pending and the heap was found empty by a further pop.
C15_Witness ==
    /\ Received = 3
    /\ nPop = 2
    /\ nImage > nPop
    /\ Cardinality(ts_heap) = 1

\* C16 (as claimed): while the timestamps handed to handle() never decrease,
\* no two entries of the heap have the same timestamp.
C16_NoDuplicateTimestamps ==
    monoTs => \A e, f \in ts_heap : e.ts = f.ts => e = f

\* C17: a decode call that yields an image while the heap is empty makes an
\* Ok frame of timestamp 0 and default source (its flags VIDEO_STREAM alone),
\* records no error and does not end the closure; once the frame is sent the
\* worker goes on with the next chunk or the next frame.
C17_UnderrunDefaultFrame ==
    /\ make_flags(NoFlags) = {"VIDEO_STREAM"}
    /\ [][(nImage' = nImage + 1 /\ ts_heap = {}) =>
             /\ res' = [kind |-> "ok", ts |-> DefaultTs, src |-> DefaultSource]
             /\ ts_heap' = {}
             /\ wpc' = "send"
             /\ result' = "none"
             /\ errUnsent' = errUnsent /\ sawErr' = sawErr]_vars
    /\ [][(wpc = "send" /\ res.kind = "ok" /\ IsDefault(res) /\ wpc' # "send") =>
             /\ wpc' \in {"decode", "recv"}
             /\ result' = "none"
             /\ receiver => (wpc' = NextChunkPc /\ outq' = Append(outq, res))]_vars

\* C17 witness: the output channel holds a frame made from an empty heap and,
\* behind it, a frame the worker stamped from the entry of a later frame.
C17_Witness ==
    /\ Len(outq) = 2
    /\ outq[1].kind = "ok" /\ IsDefault(outq[1])
    /\ outq[2].kind = "ok" /\ ~IsDefault(outq[2])
    /\ outq[2].src = 2
    /\ ~sawErr

\* the items the worker has made and the caller has not let go of yet
ItemsInFlight ==
    {res} \cup {outq[i] : i \in 1 .. Len(outq)} \cup {stream[i] : i \in 1 .. Len(stream)}

\* C19: while every frame handed to handle() has one chunk, the heap is not
\* empty when a decode call is made, every image pops an entry, and no Ok
\* frame carries the default timestamp and source of an empty heap.
C19_NoUnderrunOneChunk ==
    /\ []((oneChunk /\ wpc = "decode") => ts_heap # {})
    /\ [](oneChunk => nImage = nPop)
    /\ [][(oneChunk /\ nImage' = nImage + 1) => (nPop' = nPop + 1 /\ ~IsDefault(res'))]_vars
    /\ [](oneChunk => \A item \in ItemsInFlight : item.kind = "ok" => ~IsDefault(item))

\* C19 witness: a frame whose timestamp the heap's minimum already had was
\* not pushed, and its image has popped that older entry, the last one.
C19_Witness ==
    /\ oneChunk
    /\ wpc = "send" /\ res.kind = "ok"
    /\ Received = 2
    /\ res.src = 1 /\ res.ts = frame.ts
    /\ ts_heap = {}
    /\ sawNone

\* the handle() call waits in sender.send: the input channel is full
CallerBlocked == cpc = "send" /\ ~WorkerGone /\ ~HasRoom(inq)

\* the worker waits in tx.send: the output channel is full, its receiver alive
WorkerBlocked == wpc = "send" /\ ~TxClosed /\ ~HasRoom(outq)

\* C18 (as claimed): the caller is never waiting to send on a full input
\* channel while the worker is waiting to send on a full output channel.
C18_NoDeadlock == ~(CallerBlocked /\ WorkerBlocked)

\* C20 (as claimed): with one chunk per frame, strictly increasing timestamps
\* and decode calls that return an image or fail, the Ok frame the worker is
\* sending carries the timestamp and source of the frame it has just decoded.
C20_StampedFromOwnUnit ==
    (oneChunk /\ strictTs /\ ~sawNone /\ wpc = "send" /\ res.kind = "ok") =>
        (res.ts = frame.ts /\ res.src = frame.src)

\* C13 (as claimed): the DecodedFrame's width and height are the dimensions
\* the codec reported for the image, and its data holds width * height * 3
\* bytes, also for dimensions that do not fit in 16 bits.
C13_DimensionsRoundTrip ==
    fpc = "made" =>
        /\ decoded.width = dims[1]
        /\ decoded.height = dims[2]
        /\ decoded.data = decoded.width * decoded.height * 3

====
